---- MODULE Spec2Model ----
(***************************************************************************)
(* Model of the OpenAI emulator service (src/service.py): the tokenizer    *)
(* adapter, the content synthesizer _generate_response_content, the       *)
(* header parsing of _get_timing_params, the streaming generator          *)
(* _stream_response and the handler chat_completions.                     *)
(*                                                                         *)
(* Text is a sequence of one-character strings.  A token id is modelled   *)
(* by the text of the token (the vocabulary is a bijection), so decode is *)
(* concatenation.  Delays are kept in thousandths of a second.            *)
(***************************************************************************)
EXTENDS Integers, Sequences, FiniteSets, TLC

\* ------------------------------------------------------------------ bounds

\* Largest explicit X-OUTPUT-LENGTH value a request carries.
MaxTarget == 6

\* Largest overshoot of one asyncio.sleep, in thousandths of a second.
MaxJitter == 1
MaxTicks == 1
NumRequests == 2

\* ------------------------------------------------------- program constants

DefaultTtftMs == 100
DefaultItlMs == 50
DefaultOutputLength == 20
CharsPerToken == 4

\* ------------------------------------------------------------------- text

Letters == {"a", "b", "m", "o", "r", "e"}
Whitespace == {" "}

IsLetter(c) == c \in Letters
IsSpace(c) == c \in Whitespace
IsPunct(c) == ~IsLetter(c) /\ ~IsSpace(c)

Min(a, b) == IF a < b THEN a ELSE b
Max(a, b) == IF a > b THEN a ELSE b

\* s[from..], the empty text when from is past the end
Drop(s, n) == SubSeq(s, n + 1, Len(s))
Take(s, n) == SubSeq(s, 1, Min(n, Len(s)))

\* Length of the longest prefix of s whose characters are all in class P.
RECURSIVE RunLen(_, _, _)
RunLen(s, i, cls) ==
    IF i > Len(s) THEN 0
    ELSE IF (cls = "L" /\ IsLetter(s[i])) \/ (cls = "S" /\ IsSpace(s[i]))
            \/ (cls = "P" /\ IsPunct(s[i]))
         THEN 1 + RunLen(s, i + 1, cls)
         ELSE 0

RECURSIVE Flatten(_)
Flatten(ss) == IF ss = <<>> THEN <<>> ELSE Head(ss) \o Flatten(Tail(ss))

\* str.strip(): the text without its leading and trailing whitespace
RECURSIVE LStrip(_)
LStrip(s) == IF s # <<>> /\ IsSpace(Head(s)) THEN LStrip(Tail(s)) ELSE s

RECURSIVE RStrip(_)
RStrip(s) ==
    IF s # <<>> /\ IsSpace(s[Len(s)]) THEN RStrip(SubSeq(s, 1, Len(s) - 1)) ELSE s

Strip(s) == RStrip(LStrip(s))

\* str.split(): the maximal runs of non-whitespace characters
RECURSIVE Split(_)
Split(s) ==
    LET t == LStrip(s)
        RECURSIVE WordLen(_)
        WordLen(i) == IF i > Len(t) \/ IsSpace(t[i]) THEN 0 ELSE 1 + WordLen(i + 1)
    IN IF t = <<>> THEN <<>>
       ELSE <<Take(t, WordLen(1))>> \o Split(Drop(t, WordLen(1)))

\* " ".join(words)
RECURSIVE Join(_)
Join(ws) ==
    IF ws = <<>> THEN <<>>
    ELSE IF Len(ws) = 1 THEN ws[1]
    ELSE ws[1] \o <<" ">> \o Join(Tail(ws))

\* ------------------------------------------------- tokenizer (tiktoken)

\* The merge table of the byte-pair encoder, lowest rank first: a pair of
\* adjacent parts may be merged when their concatenation is in the table.
MergeableRanks ==
    << <<"a", "b">>,
       <<" ", "a">>,
       <<" ", "b">>,
       <<" ", "a", "b">>,
       <<"b", "a">>,
       <<" ", "b", "a">> >>

NoRank == Len(MergeableRanks) + 1

Rank(tok) ==
    IF \E r \in 1..Len(MergeableRanks) : MergeableRanks[r] = tok
    THEN CHOOSE r \in 1..Len(MergeableRanks) : MergeableRanks[r] = tok
    ELSE NoRank

\* Length of the piece the pre-tokenizer's pattern matches at the head of s
\* (s non-empty): an optional non-letter followed by letters; else an
\* optional space followed by punctuation; else whitespace, leaving the last
\* whitespace character to the piece that follows.
PieceLen(s) ==
    IF IsLetter(s[1]) THEN RunLen(s, 1, "L")
    ELSE IF Len(s) >= 2 /\ IsLetter(s[2]) THEN 1 + RunLen(s, 2, "L")
    ELSE IF IsPunct(s[1]) THEN RunLen(s, 1, "P")
    ELSE IF Len(s) >= 2 /\ IsPunct(s[2]) THEN 1 + RunLen(s, 2, "P")
    ELSE LET n == RunLen(s, 1, "S")
         IN IF n = Len(s) THEN n ELSE n - 1

RECURSIVE PreTokenize(_)
PreTokenize(s) ==
    IF s = <<>> THEN <<>>
    ELSE <<Take(s, PieceLen(s))>> \o PreTokenize(Drop(s, PieceLen(s)))

\* Byte-pair merging of one piece: merge the leftmost adjacent pair of lowest
\* rank until no adjacent pair is in the table.
RECURSIVE BytePairMerge(_)
BytePairMerge(parts) ==
    LET pairs == 1..(Len(parts) - 1)
        rk(i) == Rank(parts[i] \o parts[i + 1])
        best == CHOOSE i \in pairs :
                    \A j \in pairs : rk(i) < rk(j) \/ (rk(i) = rk(j) /\ i <= j)
    IN IF pairs = {} \/ \A i \in pairs : rk(i) = NoRank THEN parts
       ELSE BytePairMerge(SubSeq(parts, 1, best - 1)
                          \o <<parts[best] \o parts[best + 1]>>
                          \o SubSeq(parts, best + 2, Len(parts)))

BytePairEncode(piece) == BytePairMerge([i \in 1..Len(piece) |-> <<piece[i]>>])

\* encoding.encode(text): the tokens of the pieces, in order
RECURSIVE EncodePieces(_)
EncodePieces(pieces) ==
    IF pieces = <<>> THEN <<>>
    ELSE BytePairEncode(Head(pieces)) \o EncodePieces(Tail(pieces))

Encode(text) == EncodePieces(PreTokenize(text))

\* encoding.decode(tokens): the concatenated text of the tokens
Decode(tokens) == Flatten(tokens)

\* tokens[:n] of Python: a negative n counts from the end
SliceTo(xs, n) ==
    IF n >= 0 THEN Take(xs, n) ELSE Take(xs, Max(Len(xs) + n, 0))

\* ------------------------------------------------------------ phrase pools

\* self.sample_responses: sentences that start with a letter and end with
\* punctuation (2 and 4 tokens).
sample_responses ==
    { <<"a", "b", ".">>,
      <<"b", "a", " ", "b", "b", ",">> }

\* filler_phrases: connectors, with or without a closing comma (1 and 3
\* tokens after the leading space).
filler_phrases ==
    { <<"a", "b">>,
      <<"b", "b", ",">> }

\* extension_templates: clauses (1 token after the leading space).
extension_templates ==
    { <<"b", "a">> }

\* addition = f" {filler} {extension}."
Addition(filler, extension) == <<" ">> \o filler \o <<" ">> \o extension \o <<".">>

\* ------------------------------------------------------- tokenizer adapter

\* The states of the tokenizer handle: "none" when tiktoken failed to
\* initialise (self.encoding is None), "cl100k" when it works, "broken" when
\* the handle exists and every call on it raises.
EncodingStates == {"cl100k", "broken", "none"}

\* __init__, lines 128-135: the handle after construction.
InitialEncodings == {"cl100k", "none"}

\* _count_tokens
_count_tokens(enc, text) ==
    IF enc = "cl100k" THEN Len(Encode(text)) ELSE Len(text) \div CharsPerToken

\* ------------------------------------------------------ content synthesizer

\* int(max(1, target_tokens // 1.3)): the float 1.3 lies just above 13/10, so
\* the floor division of a positive multiple of 13 lands one below 10t/13.
estimated_words(target_tokens) ==
    LET q == IF target_tokens > 0 /\ target_tokens % 13 = 0
             THEN (10 * target_tokens) \div 13 - 1
             ELSE (10 * target_tokens) \div 13
    IN Max(1, q)

\* A truncation that keeps at least one token, as the word fallback keeps at
\* least one word.
TruncateBaseAtLeastOne(enc, base, target_tokens) ==
    IF enc = "cl100k"
    THEN Decode(SliceTo(Encode(base), Max(1, target_tokens)))
    ELSE Join(SliceTo(Split(base), estimated_words(target_tokens)))

\* The truncate branch: exact truncation by tokens, or the first words.
TruncateBase(enc, base, target_tokens) ==
    IF enc = "cl100k"
    THEN Decode(SliceTo(Encode(base), target_tokens))
    ELSE Join(SliceTo(Split(base), estimated_words(target_tokens)))

\* A cut that takes one token too many.
PartialAdditionOneMore(enc, addition, remaining_tokens) ==
    IF enc = "cl100k"
    THEN Decode(SliceTo(Encode(addition), remaining_tokens + 1))
    ELSE <<" ", "m", "o", "r", "e">>

\* The piece appended when the whole addition does not fit (lines 220-234).
PartialAddition(enc, addition, remaining_tokens) ==
    IF enc = "cl100k"
    THEN Decode(SliceTo(Encode(addition), remaining_tokens))
    ELSE <<" ", "m", "o", "r", "e">>

\* ------------------------------------------------------------ request data

Absent == [kind |-> "absent", val |-> 0]
NonNumeric == [kind |-> "text", val |-> 0]
Num(v) == [kind |-> "num", val |-> v]

TtftHeaders == {Absent, NonNumeric, Num(-2), Num(0)}
ItlHeaders == {Absent, NonNumeric, Num(-3), Num(7)}
\* The requests considered carry an X-OUTPUT-LENGTH header.
OutputLengthHeaders == {NonNumeric} \cup {Num(v) : v \in -1..MaxTarget}

Bodies == {"ok", "invalid_json", "missing_model", "missing_messages"}

\* len(str(request_data.messages)) of the requests considered
MessagesLengths == {2, 47}

\* The "model" field of the request bodies considered.
ModelNames == {"gpt-4", "my-model"}

Requests ==
    [body : Bodies, stream : BOOLEAN, model : {"gpt-4"},
     hTtft : TtftHeaders, hItl : ItlHeaders, hLen : OutputLengthHeaders]

\* A parser that falls back to the default on a value it cannot convert.
ParseHeaderLenient(h, default, conv) ==
    IF h.kind = "num" THEN [ok |-> TRUE, val |-> h.val, msg |-> ""]
    ELSE [ok |-> TRUE, val |-> default, msg |-> ""]

\* request.headers.get(name, default) followed by float(...) or int(...):
\* the value, or the message of the ValueError raised.
ParseHeader(h, default, conv) ==
    IF h.kind = "absent" THEN [ok |-> TRUE, val |-> default, msg |-> ""]
    ELSE IF h.kind = "num" THEN [ok |-> TRUE, val |-> h.val, msg |-> ""]
    ELSE [ok |-> FALSE, val |-> 0,
          msg |-> IF conv = "float" THEN "could not convert string to float"
                  ELSE "invalid literal for int() with base 10"]

\* request.json() and ChatCompletionRequest(**body): the message of the
\* exception raised, "" when the body is accepted.
BodyError(body) ==
    CASE body = "invalid_json" -> "Expecting value"
      [] body = "missing_model" -> "model: Field required"
      [] body = "missing_messages" -> "messages: Field required"
      [] OTHER -> ""

\* _get_timing_params with the two delays taken from each other's header.
TimingParamsSwapped(r) ==
    LET t == ParseHeader(r.hItl, DefaultItlMs, "float")
        i == ParseHeader(r.hTtft, DefaultTtftMs, "float")
        n == ParseHeader(r.hLen, DefaultOutputLength, "int")
    IN IF ~t.ok THEN [ok |-> FALSE, msg |-> t.msg, ttft |-> 0, itl |-> 0, len |-> 0]
       ELSE IF ~i.ok THEN [ok |-> FALSE, msg |-> i.msg, ttft |-> 0, itl |-> 0, len |-> 0]
       ELSE IF ~n.ok THEN [ok |-> FALSE, msg |-> n.msg, ttft |-> 0, itl |-> 0, len |-> 0]
       ELSE [ok |-> TRUE, msg |-> "", ttft |-> t.val, itl |-> i.val, len |-> n.val]

\* _get_timing_params: the three values (delays in thousandths of a second,
\* that is ttft_ms / 1000.0 seconds), or the first conversion error.
_get_timing_params(r) ==
    LET t == ParseHeader(r.hTtft, DefaultTtftMs, "float")
        i == ParseHeader(r.hItl, DefaultItlMs, "float")
        n == ParseHeader(r.hLen, DefaultOutputLength, "int")
    IN IF ~t.ok THEN [ok |-> FALSE, msg |-> t.msg, ttft |-> 0, itl |-> 0, len |-> 0]
       ELSE IF ~i.ok THEN [ok |-> FALSE, msg |-> i.msg, ttft |-> 0, itl |-> 0, len |-> 0]
       ELSE IF ~n.ok THEN [ok |-> FALSE, msg |-> n.msg, ttft |-> 0, itl |-> 0, len |-> 0]
       ELSE [ok |-> TRUE, msg |-> "", ttft |-> t.val, itl |-> i.val, len |-> n.val]

\* ------------------------------------------------------------------ state

VARIABLES
    encoding,         \* self.encoding: the tokenizer handle's state
    req,              \* the request: body, stream flag, headers
    pc,               \* where the handler / the stream generator stands
    status,           \* HTTP status sent (0: none yet)
    detail,           \* detail of the HTTPException raised
    ttft, itl,        \* delays, in thousandths of a second
    output_length,    \* target token count
    elapsed,          \* time from the request's arrival to the first frame or
                      \* the response: the stopwatch stops there
    current_content,  \* locals of _generate_response_content
    current_tokens,
    content,          \* the synthesized content
    mode,             \* "token", "word" (no tokenizer), "fallback" (except branch)
    units,            \* tokens (token mode) or words being streamed
    idx,              \* number of units of the current loop already emitted
    out,              \* frames yielded so far
    resp,             \* body of the non-streaming response
    cancelled,        \* the caller cancelled / the connection closed
    sinceDelta,       \* time since the latest Delta frame (-1: none yet)
    minGap,           \* smallest spacing seen between two Delta frames (-1: none)
    failedAfter,      \* Delta frames sent when the token path raised (-1: never)
    request_id,       \* local of _stream_response ("": not started)
    created,          \* local of _stream_response (-1: not started)
    wall,             \* int(time.time()), counted from the request's arrival
    events,           \* what the request did so far: the sleeps it began, the
                      \* call of the synthesizer, the choice of the units,
                      \* the frames it yielded
    self,             \* the service object: available_models,
                      \* sample_responses, encoding
    tasks             \* concurrent requests: the locals of each one's handler
                      \* and generator

vars == <<encoding, req, pc, status, detail, ttft, itl, output_length, elapsed,
          current_content, current_tokens, content, mode, units, idx, out,
          resp, cancelled, sinceDelta, minGap, failedAfter, request_id,
          created, wall, events, self, tasks>>

genVars == <<current_content, current_tokens, content>>
loopVars == <<mode, units, idx>>
timing == <<ttft, itl, output_length>>
history == <<sinceDelta, minGap, failedAfter>>
ident == <<request_id, created>>
outside == <<wall, self, tasks>>

NoResponse == [content |-> <<>>, finish_reason |-> "", msgLen |-> 0,
               prompt_tokens |-> 0,
               completion_tokens |-> 0, total_tokens |-> 0]

\* uuid.uuid4().hex[:8] of line 247: one request, one value.
Uuids == {"0a1b2c3d"}

\* The locals of a request that has just arrived.
Handling ==
    /\ pc = "recv"
    /\ status = 0
    /\ detail = ""
    /\ ttft = 0 /\ itl = 0 /\ output_length = 0
    /\ elapsed = 0
    /\ current_content = <<>> /\ current_tokens = 0 /\ content = <<>>
    /\ mode = "none" /\ units = <<>> /\ idx = 0
    /\ out = <<>>
    /\ resp = NoResponse
    /\ cancelled = FALSE
    /\ sinceDelta = -1 /\ minGap = -1 /\ failedAfter = -1
    /\ request_id = "" /\ created = -1
    /\ events = <<>>

\* self.available_models (three of its names)
available_models == {"gpt-3.5-turbo", "gpt-4", "gpt-4-32k"}

\* The attributes __init__ sets.
ServiceObject(enc) ==
    [available_models |-> available_models,
     sample_responses |-> sample_responses,
     encoding |-> enc]

\* The state after __init__, no request looked at yet.
Constructed ==
    /\ encoding \in InitialEncodings
    /\ self = ServiceObject(encoding)
    /\ wall = 0

\* The state after __init__ with one request of rs arriving.
Arrival(rs) ==
    /\ Constructed
    /\ tasks = <<>>
    /\ req \in rs
    /\ Handling

Init == Arrival(Requests)

\* ------------------------------------------------------------ stream frames

\* A chunk stamped with a time read when the chunk is built.
ChunkCreatedNow == wall

\* Lines 260-261, 288-289, 340-341: every chunk is built with id=request_id
\* and created=created, the locals of lines 247-248.
ChunkId == request_id
ChunkCreated == created

\* ChatCompletionStreamResponse: model=request_data.model and a one-element
\* choices list, DeltaChoice(index=0, ...).
Chunk(keys, role, text, finish) ==
    [sse |-> "data", id |-> ChunkId, created |-> ChunkCreated,
     model |-> req.model, choices |-> <<0>>,
     keys |-> keys, role |-> role, content |-> text,
     finish_reason |-> finish]

\* delta = {"role": "assistant", "content": ""}, finish_reason = None
RoleChunk == Chunk({"role", "content"}, "assistant", <<>>, "null")
\* delta = {"content": text}, finish_reason = None
DeltaChunk(text) == Chunk({"content"}, "", text, "null")
\* delta = {}, finish_reason = "stop"
FinalChunk == Chunk({}, "", <<>>, "stop")
\* the literal frame "data: [DONE]\n\n"
DoneFrame == [sse |-> "[DONE]", id |-> "", created |-> 0, model |-> "",
              choices |-> <<>>, keys |-> {}, role |-> "", content |-> <<>>,
              finish_reason |-> ""]

IsRole(f) == f.sse = "data" /\ "role" \in f.keys
IsDelta(f) == f.sse = "data" /\ f.keys = {"content"}
IsFinal(f) == f.sse = "data" /\ f.keys = {}
IsDone(f) == f.sse = "[DONE]"

\* ------------------------------------------------------- chat_completions

\* Lines 350-364 and 399-400: parse the body, derive the timing parameters,
\* and either raise HTTP 400, hand the generator to StreamingResponse, or go
\* to the non-streaming wait.  The generator handed over runs to its first
\* suspension, the sleep of line 251, fixing request_id and created on the
\* way (lines 247-248); the non-streaming handler goes on to its sleep of
\* line 367.
ChatCompletions ==
    /\ pc = "recv"
    /\ LET be == BodyError(req.body)
           tp == _get_timing_params(req)
       IN IF be # ""
          THEN /\ pc' = "http400" /\ status' = 400 /\ detail' = be
               /\ UNCHANGED timing
          ELSE IF ~tp.ok
          THEN /\ pc' = "http400" /\ status' = 400 /\ detail' = tp.msg
               /\ UNCHANGED timing
          ELSE /\ ttft' = tp.ttft /\ itl' = tp.itl /\ output_length' = tp.len
               /\ detail' = ""
               /\ IF req.stream
                  THEN pc' = "await_first_token" /\ status' = 200
                  ELSE pc' = "wait_ttft" /\ status' = status
    /\ IF pc' = "await_first_token"
       THEN /\ \E u \in Uuids : request_id' = "chatcmpl-" \o u
            /\ created' = wall
       ELSE UNCHANGED ident
    /\ events' = IF pc' = "http400" THEN events ELSE <<"sleep_ttft">>
    /\ UNCHANGED <<encoding, req, elapsed, genVars, loopVars, out, resp, cancelled,
                   history, outside>>

\* A sleep that returns without waiting for the delay.
SleptNoWait(delay, j) == j

\* await asyncio.sleep(delay): the time the sleep takes; a delay <= 0 returns
\* at once, and a sleep may overshoot by j.
Slept(delay, j) == Max(delay, 0) + j

\* Line 367: the non-streaming wait for TTFT.
WaitTtft ==
    /\ pc = "wait_ttft"
    /\ \E j \in 0..MaxJitter : elapsed' = elapsed + Slept(ttft, j)
    /\ pc' = "generate"
    /\ UNCHANGED <<encoding, req, status, detail, timing, genVars, loopVars, out,
                   resp, cancelled, history, ident, outside, events>>

\* --------------------------------------------- _generate_response_content

\* Lines 163-181: draw the base phrase; truncate it when it already has the
\* target's tokens, else enter the extension loop.
GenerateBase ==
    /\ pc = "generate"
    /\ \E base_response \in sample_responses :
         LET n == _count_tokens(encoding, base_response)
         IN /\ current_content' = base_response
            /\ current_tokens' = n
            /\ IF n >= output_length
               THEN /\ content' = TruncateBase(encoding, base_response, output_length)
                    /\ pc' = "generated"
               ELSE /\ content' = content
                    /\ pc' = "extend"
    /\ events' = Append(events, "synthesize")
    /\ UNCHANGED <<encoding, req, status, detail, timing, elapsed, loopVars, out, resp,
                   cancelled, history, ident, outside>>

\* A loop whose tally counts the additions instead of their tokens.
GenerateExtendCountsOne ==
    /\ pc = "extend"
    /\ \E filler \in filler_phrases, extension \in extension_templates :
         LET addition == Addition(filler, extension)
             addition_tokens == _count_tokens(encoding, addition)
             remaining_tokens == output_length - current_tokens
         IN IF current_tokens + addition_tokens <= output_length
            THEN /\ current_content' = current_content \o addition
                 /\ current_tokens' = current_tokens + 1
                 /\ IF current_tokens + 1 < output_length
                    THEN pc' = "extend" /\ content' = content
                    ELSE pc' = "generated"
                         /\ content' = Strip(current_content \o addition)
            ELSE /\ current_content' =
                       IF remaining_tokens > 0
                       THEN current_content
                            \o PartialAddition(encoding, addition, remaining_tokens)
                       ELSE current_content
                 /\ current_tokens' = current_tokens
                 /\ content' = Strip(current_content')
                 /\ pc' = "generated"
    /\ UNCHANGED <<encoding, req, status, detail, timing, elapsed, loopVars, out, resp,
                   cancelled, history, ident, outside, events>>

\* A loop that appends every addition whole, without the test of line 215.
GenerateExtendNoCheck ==
    /\ pc = "extend"
    /\ \E filler \in filler_phrases, extension \in extension_templates :
         LET addition == Addition(filler, extension)
             addition_tokens == _count_tokens(encoding, addition)
         IN /\ current_content' = current_content \o addition
            /\ current_tokens' = current_tokens + addition_tokens
            /\ IF current_tokens + addition_tokens < output_length
               THEN pc' = "extend" /\ content' = content
               ELSE pc' = "generated"
                    /\ content' = Strip(current_content \o addition)
    /\ UNCHANGED <<encoding, req, status, detail, timing, elapsed, loopVars, out, resp,
                   cancelled, history, ident, outside, events>>

\* Lines 207-237: one pass of the while loop (entered with current_tokens <
\* target_tokens).  A whole addition that fits is appended and counted; the
\* loop ends when the tally reaches the target.  An addition that does not
\* fit is cut to the remaining tokens and ends the loop.  On leaving the loop
\* the content is stripped.
GenerateExtend ==
    /\ pc = "extend"
    /\ \E filler \in filler_phrases, extension \in extension_templates :
         LET addition == Addition(filler, extension)
             addition_tokens == _count_tokens(encoding, addition)
             remaining_tokens == output_length - current_tokens
         IN IF current_tokens + addition_tokens <= output_length
            THEN /\ current_content' = current_content \o addition
                 /\ current_tokens' = current_tokens + addition_tokens
                 /\ IF current_tokens + addition_tokens < output_length
                    THEN pc' = "extend" /\ content' = content
                    ELSE pc' = "generated"
                         /\ content' = Strip(current_content \o addition)
            ELSE /\ current_content' =
                       IF remaining_tokens > 0
                       THEN current_content
                            \o PartialAddition(encoding, addition, remaining_tokens)
                       ELSE current_content
                 /\ current_tokens' = current_tokens
                 /\ content' = Strip(current_content')
                 /\ pc' = "generated"
    /\ UNCHANGED <<encoding, req, status, detail, timing, elapsed, loopVars, out, resp,
                   cancelled, history, ident, outside, events>>

\* Usage that leaves the prompt out of the total.
UsageNoPrompt(enc, msgLen, text) ==
    [prompt_tokens |-> msgLen \div CharsPerToken,
     completion_tokens |-> _count_tokens(enc, text),
     total_tokens |-> _count_tokens(enc, text)]

\* Lines 373-377: prompt_tokens = len(str(messages)) // 4, completion_tokens
\* = _count_tokens(content), total_tokens their sum.
Usage(enc, msgLen, text) ==
    [prompt_tokens |-> msgLen \div CharsPerToken,
     completion_tokens |-> _count_tokens(enc, text),
     total_tokens |-> msgLen \div CharsPerToken + _count_tokens(enc, text)]

\* Lines 373-397: usage accounting and the completed-message body.
Respond ==
    /\ pc = "generated"
    /\ ~req.stream
    /\ \E msgLen \in MessagesLengths :
         LET usage == Usage(encoding, msgLen, content)
         IN resp' = [content |-> content, finish_reason |-> "stop",
                     msgLen |-> msgLen,
                     prompt_tokens |-> usage.prompt_tokens,
                     completion_tokens |-> usage.completion_tokens,
                     total_tokens |-> usage.total_tokens]
    /\ status' = 200
    /\ pc' = "http200"
    /\ UNCHANGED <<encoding, req, detail, timing, elapsed, genVars, loopVars, out,
                   cancelled, history, ident, outside, events>>

\* -------------------------------------------------------- _stream_response

NumDeltas(frames) == Cardinality({k \in 1..Len(frames) : IsDelta(frames[k])})

\* A try block without an except clause.
ExceptCatchesNothing(exc) == FALSE

\* A clause that catches every exception (`except BaseException`).
ExceptCatchesAll(exc) == TRUE

\* The exceptions an `except Exception` clause catches: asyncio's
\* CancelledError and GeneratorExit derive from BaseException and pass it.
ExceptCatches(exc) == exc \notin {"CancelledError", "GeneratorExit"}

\* The pcs at which the generator is suspended: in a sleep or at a yield.
SleepPcs == {"await_first_token", "sleep_itl"}
YieldPcs == {"yield_role", "yield_delta", "yield_final", "yield_done"}
SuspensionPcs == SleepPcs \cup YieldPcs

\* Lines 247-251: request_id and created are fixed, then the first-token wait.
AwaitFirstToken ==
    /\ pc = "await_first_token"
    /\ ~cancelled
    /\ \E j \in 0..MaxJitter : elapsed' = elapsed + Slept(ttft, j)
    /\ pc' = "generate"
    /\ UNCHANGED <<encoding, req, status, detail, timing, genVars, loopVars, out,
                   resp, cancelled, history, ident, outside, events>>

\* Lines 254-270: the content is known; yield the role chunk.
EmitRole ==
    /\ pc = "generated"
    /\ req.stream
    /\ out' = Append(out, RoleChunk)
    /\ pc' = "yield_role"
    /\ events' = Append(events, "role")
    /\ UNCHANGED <<encoding, req, status, detail, timing, elapsed, genVars, loopVars,
                   resp, cancelled, history, ident, outside>>

\* Word loops that emit the bare word.
UnitTextBare(m, u, i) == IF m = "token" THEN Decode(<<u[i]>>) ELSE u[i]

\* The text of unit i of a loop: decode([token]) in the token loop (line 284),
\* word + " " in the two word loops (lines 313 and 332).
UnitText(m, u, i) == IF m = "token" THEN Decode(<<u[i]>>) ELSE u[i] \o <<" ">>

\* A loop that goes from the last unit straight to the sentinel.
LoopStepNoFinal(m, u, i) ==
    IF i >= Len(u)
    THEN [mode |-> m, units |-> u, idx |-> i, frame |-> DoneFrame,
          pc |-> "yield_done"]
    ELSE [mode |-> m, units |-> u, idx |-> i + 1,
          frame |-> DeltaChunk(UnitText(m, u, i + 1)), pc |-> "yield_delta"]

\* A loop that stops one unit early.
LoopStepDropLast(m, u, i) ==
    IF i >= Len(u) - 1
    THEN [mode |-> m, units |-> u, idx |-> i, frame |-> FinalChunk,
          pc |-> "yield_final"]
    ELSE [mode |-> m, units |-> u, idx |-> i + 1,
          frame |-> DeltaChunk(UnitText(m, u, i + 1)), pc |-> "yield_delta"]

\* From the head of a for loop with i units done, any sleep taken: the next
\* yield is a Delta chunk, or past the last unit the Final chunk (line 345).
LoopStep(m, u, i) ==
    IF i >= Len(u)
    THEN [mode |-> m, units |-> u, idx |-> i, frame |-> FinalChunk,
          pc |-> "yield_final"]
    ELSE [mode |-> m, units |-> u, idx |-> i + 1,
          frame |-> DeltaChunk(UnitText(m, u, i + 1)), pc |-> "yield_delta"]

\* The entry of events for a frame yielded.
FrameEvent(f) ==
    IF IsRole(f) THEN "role" ELSE IF IsDelta(f) THEN "delta"
    ELSE IF IsFinal(f) THEN "final" ELSE "done"

\* The generator runs to its next yield, gap after the latest Delta.  When raised is TRUE an
\* exception caught by line 299 left the token path: the word loop of lines
\* 301-318 starts over from the first word of the content.
RunToYield(m, u, i, gap, raised) ==
    LET st == IF raised THEN LoopStep("fallback", Split(content), 0)
              ELSE LoopStep(m, u, i)
    IN /\ mode' = st.mode /\ units' = st.units /\ idx' = st.idx
       /\ out' = Append(out, st.frame)
       /\ pc' = st.pc
       /\ events' = events
                    \o (IF raised \/ pc = "yield_role" THEN <<"units">> ELSE <<>>)
                    \o <<FrameEvent(st.frame)>>
       /\ failedAfter' = IF raised /\ failedAfter = -1 THEN NumDeltas(out)
                         ELSE failedAfter
       /\ IF IsDelta(st.frame)
          THEN /\ sinceDelta' = 0
               /\ minGap' = IF sinceDelta = -1 THEN minGap
                            ELSE IF minGap = -1 THEN gap
                            ELSE Min(minGap, gap)
          ELSE /\ sinceDelta' = gap
               /\ minGap' = minGap

\* An exception that no except clause catches leaves the generator, which
\* ends there: the stream breaks off.
Escapes ==
    /\ pc' = "raised"
    /\ UNCHANGED <<loopVars, out, history, events>>

\* Lines 273-279 and 319-322, after the role chunk was taken: choose the
\* units (tokens, or words when there is no tokenizer or encode raises) and
\* run to the first Delta, which is not preceded by a sleep.
StartUnits ==
    /\ pc = "yield_role"
    /\ ~cancelled
    /\ IF encoding = "none"
       THEN RunToYield("word", Split(content), 0, sinceDelta, FALSE)
       ELSE IF encoding = "cl100k"
       THEN RunToYield("token", Encode(content), 0, sinceDelta, FALSE)
       ELSE IF ExceptCatches("Exception")
       THEN RunToYield("token", <<>>, 0, sinceDelta, TRUE)
       ELSE Escapes
    /\ UNCHANGED <<encoding, req, status, detail, timing, elapsed, genVars, resp,
                   cancelled, ident, outside>>

\* A loop that sleeps after each unit instead of before each but the first.
NextUnitSleepAfter ==
    /\ pc = "yield_delta"
    /\ ~cancelled
    /\ pc' = "sleep_itl"
    /\ events' = Append(events, "sleep_itl")
    /\ UNCHANGED <<loopVars, out, history>>
    /\ UNCHANGED <<encoding, req, status, detail, timing, elapsed, genVars, resp,
                   cancelled, ident, outside>>

\* After a Delta chunk was taken: past the last unit yield the Final chunk,
\* else sleep (i > 0: lines 280-281, 303-304, 323-324).
NextUnit ==
    /\ pc = "yield_delta"
    /\ ~cancelled
    /\ IF idx >= Len(units)
       THEN RunToYield(mode, units, idx, sinceDelta, FALSE)
       ELSE /\ pc' = "sleep_itl"
            /\ events' = Append(events, "sleep_itl")
            /\ UNCHANGED <<loopVars, out, history>>
    /\ UNCHANGED <<encoding, req, status, detail, timing, elapsed, genVars, resp,
                   cancelled, ident, outside>>

\* The inter-token sleep ends: decode the token (line 284), which raises when
\* the tokenizer is broken, and yield the Delta chunk.
InterTokenWake ==
    /\ pc = "sleep_itl"
    /\ ~cancelled
    /\ \E j \in 0..MaxJitter :
         LET raised == mode = "token" /\ encoding # "cl100k"
         IN IF raised /\ ~ExceptCatches("Exception")
            THEN Escapes
            ELSE RunToYield(mode, units, idx, sinceDelta + Slept(itl, j), raised)
    /\ UNCHANGED <<encoding, req, status, detail, timing, elapsed, genVars, resp,
                   cancelled, ident, outside>>

\* Line 346, after the Final chunk was taken: the sentinel.
EmitDone ==
    /\ pc = "yield_final"
    /\ ~cancelled
    /\ out' = Append(out, DoneFrame)
    /\ pc' = "yield_done"
    /\ events' = Append(events, "done")
    /\ UNCHANGED <<encoding, req, status, detail, timing, elapsed, genVars, loopVars,
                   resp, cancelled, history, ident, outside>>

\* The generator returns after the sentinel was taken.
Close ==
    /\ pc = "yield_done"
    /\ ~cancelled
    /\ pc' = "closed"
    /\ UNCHANGED <<encoding, req, status, detail, timing, elapsed, genVars, loopVars,
                   out, resp, cancelled, history, ident, outside, events>>

\* -------------------------------------------------------------- environment

\* The caller cancels or the connection closes.  The event loop runs the
\* disconnect only while the generator is suspended, and the cancellation
\* reaches it there: CancelledError out of a sleep, GeneratorExit at a yield.
\* Inside the try block of lines 274-298 the except clause of line 299 is
\* tried first; an exception it does not catch ends the generator.
Cancel ==
    /\ req.stream
    /\ pc \in SuspensionPcs
    /\ ~cancelled
    /\ cancelled' = TRUE
    /\ LET exc == IF pc \in SleepPcs THEN "CancelledError" ELSE "GeneratorExit"
           inTry == mode = "token" /\ pc \in {"sleep_itl", "yield_delta"}
       IN IF inTry /\ ExceptCatches(exc)
          THEN RunToYield(mode, units, idx, sinceDelta, TRUE)
          ELSE /\ pc' = "aborted"
               /\ UNCHANGED <<loopVars, out, history, events>>
    /\ UNCHANGED <<encoding, req, status, detail, timing, elapsed, genVars, resp,
                   ident, outside>>

\* The tokenizer starts raising on its calls: seen by the next call, so taken
\* where the next step of the request calls the tokenizer.
TokenizerBreaks ==
    /\ encoding = "cl100k"
    /\ \/ pc \in {"generate", "extend", "yield_role"}
       \/ pc = "generated" /\ ~req.stream
       \/ pc = "sleep_itl" /\ mode = "token"
    /\ ~cancelled
    /\ encoding' = "broken"
    /\ UNCHANGED <<req, pc, status, detail, timing, elapsed, genVars, loopVars, out,
                   resp, cancelled, history, ident, outside, events>>

\* ------------------------------------------------------------ specification

Next ==
    \/ ChatCompletions
    \/ WaitTtft
    \/ GenerateBase
    \/ GenerateExtend
    \/ Respond
    \/ AwaitFirstToken
    \/ EmitRole
    \/ StartUnits
    \/ NextUnit
    \/ InterTokenWake
    \/ EmitDone
    \/ Close
    \/ Cancel
    \/ TokenizerBreaks

Spec == Init /\ [][Next]_vars

\* ------------------------------------------------- the streaming path alone

\* Accepted streaming requests: any model name, targets from 0.
StreamRequests ==
    [body : {"ok"}, stream : {TRUE}, model : ModelNames,
     hTtft : {Num(0)}, hItl : {Num(7)},
     hLen : {Num(v) : v \in 0..MaxTarget}]

StreamInit == Arrival(StreamRequests)

\* The second of int(time.time()) changes, before the generator starts or
\* while it is suspended.
WallTick ==
    /\ pc \in {"recv"} \cup SuspensionPcs
    /\ ~cancelled
    /\ wall < MaxTicks
    /\ wall' = wall + 1
    /\ UNCHANGED <<encoding, req, pc, status, detail, timing, elapsed, genVars,
                   loopVars, out, resp, cancelled, history, ident, events, self,
                   tasks>>

\* The steps of the handler and of the generator.
Progress ==
    \/ ChatCompletions
    \/ AwaitFirstToken
    \/ GenerateBase
    \/ GenerateExtend
    \/ EmitRole
    \/ StartUnits
    \/ NextUnit
    \/ InterTokenWake
    \/ EmitDone
    \/ Close

StreamNext ==
    \/ Progress
    \/ Cancel
    \/ TokenizerBreaks
    \/ WallTick

StreamSpec == StreamInit /\ [][StreamNext]_vars

\* Streams of one model name, with or without delays.
FairRequests ==
    [body : {"ok"}, stream : {TRUE}, model : {"gpt-4"},
     hTtft : {Num(0)}, hItl : {Num(0), Num(7)},
     hLen : {Num(v) : v \in 0..MaxTarget}]

FairInit == Arrival(FairRequests)

FairNext ==
    \/ Progress
    \/ Cancel
    \/ TokenizerBreaks

\* The states in which Progress has a step: the handler or the generator is
\* at one of its steps and was not cancelled.  This is ENABLED <<Progress>>_vars:
\* each step is guarded by its pc (and by ~cancelled from the first yield
\* on), assigns in every branch, and moves pc or adds to out or events.
CanStep ==
    /\ pc \in {"recv", "await_first_token", "generate", "extend", "generated",
               "yield_role", "yield_delta", "sleep_itl", "yield_final",
               "yield_done"}
    /\ ~cancelled

\* WF_vars(Progress), with the enabling condition written out.
Scheduling == ([]<>~CanStep) \/ ([]<><<Progress>>_vars)

\* The event loop runs a task that is ready, a sleep ends, and StreamingResponse
\* keeps taking frames while the connection stands: a step of the request
\* that stays possible is taken.  Nothing obliges the caller to cancel or
\* the tokenizer to break.
FairSpec == FairInit /\ [][FairNext]_vars /\ Scheduling

\* ------------------------------------------------------ concurrent requests

\* _generate_response_content as a whole: the contents it can return, over
\* the draws of random.choice.  ExtendedContents is the while loop of lines
\* 207-235 from a content cc counted ct, followed by the strip of line 237.
RECURSIVE ExtendedContents(_, _, _, _)
ExtendedContents(enc, cc, ct, target_tokens) ==
    UNION { LET addition == Addition(filler, extension)
                addition_tokens == _count_tokens(enc, addition)
                remaining_tokens == target_tokens - ct
            IN IF ct + addition_tokens <= target_tokens
               THEN IF ct + addition_tokens < target_tokens
                    THEN ExtendedContents(enc, cc \o addition,
                                          ct + addition_tokens, target_tokens)
                    ELSE {Strip(cc \o addition)}
               ELSE IF remaining_tokens > 0
               THEN {Strip(cc \o PartialAddition(enc, addition, remaining_tokens))}
               ELSE {Strip(cc)}
          : filler \in filler_phrases, extension \in extension_templates }

GeneratedContents(enc, pool, target_tokens) ==
    UNION { IF _count_tokens(enc, base_response) >= target_tokens
            THEN {TruncateBase(enc, base_response, target_tokens)}
            ELSE ExtendedContents(enc, base_response,
                                  _count_tokens(enc, base_response), target_tokens)
          : base_response \in pool }

\* What request number r may be: a stream, a non-streaming request or a
\* body that is not JSON.  X-ITL-MS differs from request to request, and
\* X-OUTPUT-LENGTH from each request to the next.
ConcRequests(r) ==
    { [body |-> k[1], stream |-> k[2], model |-> "gpt-4",
       hTtft |-> Num(0), hItl |-> Num(r), hLen |-> Num(2 + (r % 2))]
      : k \in {<<"ok", TRUE>>, <<"ok", FALSE>>, <<"invalid_json", FALSE>>} }

\* The locals of request rq before its handler runs.
NewTask(rq) ==
    [req |-> rq, pc |-> "recv", status |-> 0,
     ttft |-> 0, itl |-> 0, output_length |-> 0,
     request_id |-> "", created |-> -1, content |-> <<>>,
     mode |-> "none", units |-> <<>>, idx |-> 0, out |-> <<>>,
     sleepLeft |-> 0, slept |-> 0, minGap |-> -1, maxGap |-> -1]

\* The service with its tokenizer loaded and NumRequests requests arriving;
\* the variables of the one-request specifications are not used.
ConcInit ==
    /\ Constructed
    /\ encoding = "cl100k"
    /\ tasks \in {ts \in [1..NumRequests -> UNION {{NewTask(rq) : rq \in ConcRequests(r)}
                                                    : r \in 1..NumRequests}] :
                    \A r \in 1..NumRequests : ts[r].req \in ConcRequests(r)}
    /\ req \in ConcRequests(1) /\ req.stream
    /\ Handling

\* Locals kept on the service object: whatever a request stores as its
\* content is seen by every request.
StoreShared(ts, r, t) ==
    [q \in DOMAIN ts |-> IF q = r THEN t ELSE [ts[q] EXCEPT !.content = t.content]]

\* The locals of request r become t: they live in the frame of its own
\* coroutine (its handler call, its generator).
Store(ts, r, t) == [ts EXCEPT ![r] = t]

\* A delay taken from the first request.
InterTokenDelayOfFirst(r) == tasks[1].itl

\* The delay of the inter-token sleeps of request r: the itl its generator
\* was called with (lines 281, 304, 324).
InterTokenDelay(r) == tasks[r].itl

\* The chunks of a task carry its own id, created and model.
Stamp(f, t) ==
    IF f.sse = "data"
    THEN [f EXCEPT !.id = t.request_id, !.created = t.created, !.model = t.req.model]
    ELSE f

Sleeping(t) == t.pc \in {"wait_ttft", "await_first_token", "sleep_itl"}
Runnable(t) == t.pc \in {"recv", "yield_role", "yield_delta", "yield_final", "yield_done"}

\* The variables of the one-request specifications, which stand still here.
single ==
    <<encoding, req, pc, status, detail, timing, elapsed, genVars, loopVars, out,
      resp, cancelled, history, ident, events, wall>>

\* chat_completions up to its first suspension, for request r (lines 350-367
\* and 247-251).
Accept(r) ==
    LET t == tasks[r]
        be == BodyError(t.req.body)
        tp == _get_timing_params(t.req)
    IN /\ t.pc = "recv"
       /\ IF be # "" \/ ~tp.ok
          THEN tasks' = Store(tasks, r, [t EXCEPT !.pc = "http400", !.status = 400])
          ELSE \E u \in Uuids :
                 tasks' = Store(tasks, r,
                    [t EXCEPT !.ttft = tp.ttft, !.itl = tp.itl,
                              !.output_length = tp.len,
                              !.sleepLeft = Max(tp.ttft, 0),
                              !.status = IF t.req.stream THEN 200 ELSE 0,
                              !.request_id = IF t.req.stream THEN "chatcmpl-" \o u
                                             ELSE "",
                              !.created = IF t.req.stream THEN wall ELSE -1,
                              !.pc = IF t.req.stream THEN "await_first_token"
                                     ELSE "wait_ttft"])
       /\ UNCHANGED <<self, single>>

\* The first-token sleep of request r ends: the content is synthesized, then
\* the role chunk is yielded (lines 254-270) or the response returned (lines
\* 370-397).
WakeFirst(r) ==
    LET t == tasks[r]
    IN /\ t.pc \in {"wait_ttft", "await_first_token"}
       /\ t.sleepLeft <= 0
       /\ \E c \in GeneratedContents(self.encoding, self.sample_responses,
                                      t.output_length) :
            tasks' = Store(tasks, r,
               IF t.req.stream
               THEN [t EXCEPT !.content = c, !.pc = "yield_role",
                              !.out = <<Stamp(RoleChunk, t)>>]
               ELSE [t EXCEPT !.content = c, !.pc = "http200", !.status = 200,
                              !.request_id = "chatcmpl-" \o CHOOSE u \in Uuids : TRUE,
                              !.created = wall])
       /\ UNCHANGED <<self, single>>

\* The generator of a request after a step of its loop, gap after its
\* latest Delta (-1: it had none).
AfterStep(t, st, gap) ==
    [t EXCEPT !.mode = st.mode, !.units = st.units, !.idx = st.idx,
              !.pc = st.pc, !.out = Append(t.out, Stamp(st.frame, t)),
              !.minGap = IF IsDelta(st.frame) /\ gap >= 0
                         THEN IF @ = -1 THEN gap ELSE Min(@, gap)
                         ELSE @,
              !.maxGap = IF IsDelta(st.frame) /\ gap >= 0
                         THEN Max(@, gap)
                         ELSE @]

\* A frame of request r was taken: its generator runs to its next yield or
\* sleep (lines 272-346).
Resume(r) ==
    LET t == tasks[r]
    IN /\ t.pc \in {"yield_role", "yield_delta", "yield_final", "yield_done"}
       /\ tasks' = Store(tasks, r,
            CASE t.pc = "yield_role" ->
                   IF self.encoding = "none"
                   THEN AfterStep(t, LoopStep("word", Split(t.content), 0), -1)
                   ELSE AfterStep(t, LoopStep("token", Encode(t.content), 0), -1)
              [] t.pc = "yield_delta" ->
                   IF t.idx >= Len(t.units)
                   THEN AfterStep(t, LoopStep(t.mode, t.units, t.idx), -1)
                   ELSE [t EXCEPT !.pc = "sleep_itl",
                                  !.sleepLeft = Max(InterTokenDelay(r), 0),
                                  !.slept = 0]
              [] t.pc = "yield_final" ->
                   [t EXCEPT !.pc = "yield_done", !.out = Append(t.out, DoneFrame)]
              [] OTHER -> [t EXCEPT !.pc = "closed"])
       /\ UNCHANGED <<self, single>>

\* An inter-token sleep of request r ends (lines 280-298, 303-318, 323-336).
WakeItl(r) ==
    LET t == tasks[r]
    IN /\ t.pc = "sleep_itl"
       /\ t.sleepLeft <= 0
       /\ tasks' = Store(tasks, r,
                         AfterStep(t, LoopStep(t.mode, t.units, t.idx), t.slept))
       /\ UNCHANGED <<self, single>>

\* A thousandth of a second passes, for every sleeping task alike.  The
\* event loop is idle then (a task that can run does so first), asyncio.sleep
\* does not hold it, and a sleep overshoots by MaxJitter at most.
Tick ==
    /\ \E r \in DOMAIN tasks : Sleeping(tasks[r])
    /\ \A r \in DOMAIN tasks :
          /\ ~Runnable(tasks[r])
          /\ Sleeping(tasks[r]) => tasks[r].sleepLeft > -MaxJitter
    /\ tasks' = [r \in DOMAIN tasks |->
                   IF Sleeping(tasks[r])
                   THEN [tasks[r] EXCEPT !.sleepLeft = @ - 1, !.slept = @ + 1]
                   ELSE tasks[r]]
    /\ UNCHANGED <<self, single>>

ConcNext ==
    \/ \E r \in DOMAIN tasks : Accept(r)
    \/ \E r \in DOMAIN tasks : WakeFirst(r)
    \/ \E r \in DOMAIN tasks : Resume(r)
    \/ \E r \in DOMAIN tasks : WakeItl(r)
    \/ Tick

ConcSpec == ConcInit /\ [][ConcNext]_vars

\* ---------------------------------------------- two requests, one target

\* ChatCompletionRequest.max_tokens and .temperature when the body leaves
\* them out (temperature in tenths).
DefaultMaxTokens == 100
DefaultTemperature == 10

\* A request body with the defaults filled in, sent without timing headers
\* other than X-OUTPUT-LENGTH n.
PlainRequest(n) ==
    [body |-> "ok", stream |-> FALSE, model |-> "gpt-4", msgLen |-> 2,
     max_tokens |-> DefaultMaxTokens, temperature |-> DefaultTemperature,
     hTtft |-> Absent, hItl |-> Absent, hLen |-> Num(n)]

\* The requests with X-OUTPUT-LENGTH n: any model name, messages, max_tokens,
\* temperature, stream flag and delays.
RequestsOfLength(n) ==
    [body : {"ok"}, stream : BOOLEAN, model : ModelNames, msgLen : MessagesLengths,
     max_tokens : {DefaultMaxTokens, 1}, temperature : {DefaultTemperature, 0},
     hTtft : {Absent, Num(0)}, hItl : {Absent, Num(7)}, hLen : {Num(n)}]

\* The locals of the handler of request rq and of the synthesizer it calls;
\* picked is what random.choice returned to it so far (the base phrase, then
\* a pair of connector and clause for every pass of the loop).
PairTask(rq) ==
    [req |-> rq, pc |-> "recv", status |-> 0,
     ttft |-> 0, itl |-> 0, output_length |-> 0,
     picked |-> <<>>,
     current_content |-> <<>>, current_tokens |-> 0, content |-> <<>>,
     completion_tokens |-> -1]

\* A target cut down to the request's max_tokens.
TargetTokensCapped(t) == Min(t.output_length, t.req.max_tokens)

\* The argument of _generate_response_content (lines 254 and 370).
TargetTokens(t) == t.output_length

\* Request r is through with its content: rejected, answered, or streaming.
Settled(t) == t.pc \in {"http400", "http200", "streaming"}

\* The service alone: the requests arrive one after the other.
PairInit ==
    /\ Constructed
    /\ tasks = <<>>
    /\ req = [body |-> "ok", stream |-> FALSE, model |-> "gpt-4",
              hTtft |-> Absent, hItl |-> Absent, hLen |-> Absent]
    /\ Handling

\* A request arrives when the one before it is settled: first a plain one,
\* then one with the same X-OUTPUT-LENGTH and anything else.
Arrive ==
    /\ Len(tasks) < 2
    /\ \A r \in DOMAIN tasks : Settled(tasks[r])
    /\ IF tasks = <<>>
       THEN \E n \in -1..MaxTarget : tasks' = <<PairTask(PlainRequest(n))>>
       ELSE \E rq \in RequestsOfLength(tasks[1].req.hLen.val) :
               tasks' = Append(tasks, PairTask(rq))
    /\ UNCHANGED <<self, single>>

\* chat_completions up to the first-token sleep (lines 350-367, 247-251).
Handle(r) ==
    LET t == tasks[r]
        be == BodyError(t.req.body)
        tp == _get_timing_params(t.req)
    IN /\ t.pc = "recv"
       /\ tasks' = Store(tasks, r,
            IF be # "" \/ ~tp.ok
            THEN [t EXCEPT !.pc = "http400", !.status = 400]
            ELSE [t EXCEPT !.ttft = tp.ttft, !.itl = tp.itl,
                           !.output_length = tp.len,
                           !.status = IF t.req.stream THEN 200 ELSE 0,
                           !.pc = "sleep_ttft"])
       /\ UNCHANGED <<self, single>>

\* What random.choice may return to request r on its k-th call, out of pool:
\* the phrase choices are the same for both requests, so the request that
\* comes second is given what the first was given.
Choices(r, k, pool) ==
    IF \E q \in DOMAIN tasks : q # r /\ Len(tasks[q].picked) >= k
    THEN {tasks[q].picked[k] : q \in {q \in DOMAIN tasks :
                                        q # r /\ Len(tasks[q].picked) >= k}}
    ELSE pool

\* Lines 251/367 and 163-181: the sleep ends and the synthesizer is called.
SynthesizeBase(r) ==
    LET t == tasks[r]
    IN /\ t.pc = "sleep_ttft"
       /\ \E base_response \in Choices(r, 1, self.sample_responses) :
            LET n == _count_tokens(self.encoding, base_response)
                u == [t EXCEPT !.picked = <<base_response>>,
                               !.current_content = base_response,
                               !.current_tokens = n]
            IN tasks' = Store(tasks, r,
                 IF n >= TargetTokens(t)
                 THEN [u EXCEPT !.content = TruncateBase(self.encoding, base_response,
                                                         TargetTokens(t)),
                                !.pc = "generated"]
                 ELSE [u EXCEPT !.pc = "extend"])
       /\ UNCHANGED <<self, single>>

\* Lines 207-237: one pass of the loop of request r.
SynthesizeExtend(r) ==
    LET t == tasks[r]
        k == Len(t.picked) + 1
    IN /\ t.pc = "extend"
       /\ \E pick \in Choices(r, k, filler_phrases \X extension_templates) :
            LET addition == Addition(pick[1], pick[2])
                addition_tokens == _count_tokens(self.encoding, addition)
                remaining_tokens == TargetTokens(t) - t.current_tokens
                u == [t EXCEPT !.picked = Append(@, pick)]
            IN tasks' = Store(tasks, r,
                 IF t.current_tokens + addition_tokens <= TargetTokens(t)
                 THEN IF t.current_tokens + addition_tokens < TargetTokens(t)
                      THEN [u EXCEPT !.current_content = @ \o addition,
                                     !.current_tokens = @ + addition_tokens]
                      ELSE [u EXCEPT !.current_content = @ \o addition,
                                     !.current_tokens = @ + addition_tokens,
                                     !.content = Strip(t.current_content \o addition),
                                     !.pc = "generated"]
                 ELSE LET cc == IF remaining_tokens > 0
                                THEN t.current_content
                                     \o PartialAddition(self.encoding, addition,
                                                        remaining_tokens)
                                ELSE t.current_content
                      IN [u EXCEPT !.current_content = cc,
                                   !.content = Strip(cc),
                                   !.pc = "generated"])
       /\ UNCHANGED <<self, single>>

\* Lines 373-397 (the usage and the response) or 255-270 (the stream goes
\* on with the content).
Deliver(r) ==
    LET t == tasks[r]
    IN /\ t.pc = "generated"
       /\ tasks' = Store(tasks, r,
            IF t.req.stream
            THEN [t EXCEPT !.pc = "streaming"]
            ELSE [t EXCEPT !.pc = "http200", !.status = 200,
                           !.completion_tokens =
                               Usage(self.encoding, t.req.msgLen,
                                     t.content).completion_tokens])
       /\ UNCHANGED <<self, single>>

PairNext ==
    \/ Arrive
    \/ \E r \in DOMAIN tasks : Handle(r)
    \/ \E r \in DOMAIN tasks : SynthesizeBase(r)
    \/ \E r \in DOMAIN tasks : SynthesizeExtend(r)
    \/ \E r \in DOMAIN tasks : Deliver(r)

PairSpec == PairInit /\ [][PairNext]_vars

\* ------------------------------------------------------------------ claims

\* A frame sequence that is a prefix of: RoleOpen, Delta*, Final, sentinel.
InOrder(frames) ==
    \A k \in 1..Len(frames) :
        IF k = 1 THEN frames[k] = RoleChunk
        ELSE \/ /\ IsDelta(frames[k]) /\ frames[k].finish_reason = "null"
                /\ IsRole(frames[k - 1]) \/ IsDelta(frames[k - 1])
             \/ /\ frames[k] = FinalChunk
                /\ IsRole(frames[k - 1]) \/ IsDelta(frames[k - 1])
             \/ /\ frames[k] = DoneFrame
                /\ IsFinal(frames[k - 1])

\* C1: the frames of a stream are, in this order, one role-open chunk, zero
\* or more Delta chunks, one Final chunk and the sentinel; at every moment
\* the frames sent are a prefix of such a sequence, and a stream that ran to
\* completion has sent all of it.
C1_FrameSequence ==
    /\ InOrder(out)
    /\ pc = "closed" =>
         /\ Len(out) >= 3
         /\ out[Len(out)] = DoneFrame
         /\ out[Len(out) - 1] = FinalChunk
         /\ NumDeltas(out) = Len(out) - 3

C1_Witness == pc = "closed" /\ NumDeltas(out) >= 2

\* C2: with the tokenizer working throughout, the synthesized content of a
\* target >= 1 has exactly the target's token count.
C2_ExactTokenCount ==
    (pc = "generated" /\ encoding = "cl100k" /\ output_length >= 1)
        => _count_tokens(encoding, content) = output_length

\* A whole addition was appended (the bases have at most 4 tokens) and then
\* a cut one.
C2_Witness ==
    /\ pc = "generated" /\ encoding = "cl100k" /\ output_length >= 1
    /\ current_tokens >= 5
    /\ current_tokens < output_length

NegativeHeader(r) ==
    \E h \in {r.hTtft, r.hItl, r.hLen} : h.kind = "num" /\ h.val < 0

NothingDone ==
    /\ pc \in {"recv", "http400"}
    /\ elapsed = 0
    /\ current_content = <<>> /\ content = <<>>
    /\ out = <<>>
    /\ resp = NoResponse

\* C3: a request with a negative X-TTFT-MS, X-ITL-MS or X-OUTPUT-LENGTH is
\* rejected with HTTP 400: no delay, no content, no chunk, no body.
C3_NegativeRejected ==
    NegativeHeader(req) => /\ NothingDone
                           /\ pc = "http400" => status = 400

Malformed(r) ==
    \/ r.body # "ok"
    \/ \E h \in {r.hTtft, r.hItl, r.hLen} : h.kind = "text"

\* The message of the first check that fails, in the handler's order.
TriggeringMessage(r) ==
    IF r.body # "ok" THEN BodyError(r.body)
    ELSE IF r.hTtft.kind = "text" \/ r.hItl.kind = "text"
    THEN "could not convert string to float"
    ELSE "invalid literal for int() with base 10"

\* C4: a request with a malformed body or a non-numeric timing header ends
\* in HTTP 400 with the triggering message as detail, before any delay, any
\* synthesis and any frame, streaming or not.
C4_MalformedRejected ==
    Malformed(req) =>
        /\ NothingDone
        /\ pc = "http400" => status = 400 /\ detail = TriggeringMessage(req)

C4_Witness ==
    /\ pc = "http400" /\ req.body = "ok" /\ req.stream
    /\ req.hItl = NonNumeric /\ req.hTtft # NonNumeric

\* C5: in a non-streaming response completion_tokens is the token count of
\* the returned content, prompt_tokens the serialized messages' length
\* divided by 4, total_tokens their sum, and none is negative.
C5_UsageAccounting ==
    pc = "http200" =>
        /\ resp.completion_tokens = _count_tokens(encoding, resp.content)
        /\ resp.prompt_tokens = resp.msgLen \div 4
        /\ resp.total_tokens = resp.prompt_tokens + resp.completion_tokens
        /\ resp.prompt_tokens >= 0 /\ resp.completion_tokens >= 0
        /\ resp.total_tokens >= 0

C5_Witness ==
    pc = "http200" /\ resp.prompt_tokens > 0 /\ resp.completion_tokens > 0

\* The texts of the Delta chunks of a frame sequence, concatenated.
RECURSIVE DeltaText(_)
DeltaText(frames) ==
    IF frames = <<>> THEN <<>>
    ELSE (IF IsDelta(Head(frames)) THEN Head(frames).content ELSE <<>>)
         \o DeltaText(Tail(frames))

\* C6: the texts of the Delta chunks of a completed stream, concatenated in
\* emission order, are the synthesized content, in token mode and in word
\* mode alike (stated for the requests whose header values are not negative).
C6_DeltasReproduceContent ==
    (pc = "closed" /\ ~NegativeHeader(req)) => DeltaText(out) = content

\* C7: no frame goes out before the first-token delay has elapsed, and two
\* consecutive Delta chunks are at least the inter-token delay apart.
C7_Timing ==
    /\ out # <<>> => elapsed >= ttft
    /\ minGap # -1 => minGap >= itl

C7_Witness ==
    /\ pc = "closed" /\ ttft > 0 /\ itl > 0
    /\ NumDeltas(out) >= 3 /\ minGap # -1

\* C8: with the tokenizer working throughout, a completed stream has sent as
\* many Delta chunks as the requested output length, for every length >= 1.
C8_DeltaCount ==
    (pc = "closed" /\ encoding = "cl100k" /\ output_length >= 1)
        => NumDeltas(out) = output_length

C8_Witness ==
    /\ pc = "closed" /\ encoding = "cl100k" /\ output_length = 5
    /\ current_tokens < output_length

\* C9: a cancellation is observed where the generator is suspended and ends
\* it: the step that cancels sends nothing, and a cancelled stream takes no
\* further step that sends a frame or leaves the aborted state.
C9_CancelAborts ==
    [][cancelled' => (pc' = "aborted" /\ out' = out)]_vars

C9_Witness ==
    /\ cancelled /\ pc = "aborted" /\ mode = "token"
    /\ NumDeltas(out) >= 1 /\ idx < Len(units)

\* C10: after a failure of the token path that followed at least one Delta
\* chunk, no further Delta chunk is sent: the content is not sent again
\* (stated for the requests whose header values are not negative).
C10_NoRestartAfterFailure ==
    (failedAfter >= 1 /\ ~NegativeHeader(req)) => NumDeltas(out) = failedAfter

\* Delta frames sent by the token loop before it failed.
failedAfterOrZero == Max(failedAfter, 0)

\* A request whose body and headers are accepted.
Accepted(r) == BodyError(r.body) = "" /\ _get_timing_params(r).ok

\* C12: a failure of the tokenizer, absent from the start or raising on a
\* call, never surfaces.  An accepted request is never answered with an
\* error and its stream never breaks off on an exception; without a working
\* tokenizer the count reported is len(text) // 4, the frames that follow
\* come from a word loop, and a stream that was not cancelled and can take
\* no further step is closed after Final and sentinel.
C12_TokenizerFailureHidden ==
    Accepted(req) =>
        /\ pc \notin {"http400", "raised"}
        /\ status \in {0, 200}
        /\ (pc = "http200" /\ encoding # "cl100k") =>
               resp.completion_tokens = Len(resp.content) \div CharsPerToken
        /\ (pc \in {"yield_delta", "yield_final", "yield_done", "closed"}
              /\ encoding # "cl100k") => mode \in {"word", "fallback"}
        /\ (pc = "closed" /\ encoding # "cl100k") =>
               /\ Len(out) >= 3
               /\ IsFinal(out[Len(out) - 1]) /\ IsDone(out[Len(out)])
               /\ \A k \in 1..NumDeltas(out) - failedAfterOrZero :
                     out[Len(out) - 1 - k].content
                       = Split(content)[Len(Split(content)) + 1 - k] \o <<" ">>

\* The tokenizer failed with Delta frames already sent, and the stream closed.
C12_Witness ==
    /\ pc = "closed" /\ encoding = "broken"
    /\ mode = "fallback" /\ failedAfter > 0
    /\ NumDeltas(out) > failedAfter

\* The texts of the Delta frames, in order (they follow the role chunk).
DeltaTexts(frames) == [k \in 1..NumDeltas(frames) |-> frames[k + 1].content]

\* C18: without a tokenizer the units streamed are the whitespace-delimited
\* words of the content, in order: Delta k carries word k followed by one
\* space, and once the Final chunk is out there are as many Deltas as words.
C18_WordUnits ==
    (req.stream /\ encoding = "none" /\ Len(out) > 0) =>
        LET words == Split(content)
            texts == DeltaTexts(out)
        IN /\ Len(texts) <= Len(words)
           /\ \A k \in 1..Len(texts) : texts[k] = words[k] \o <<" ">>
           /\ \A k \in 1..Len(words) :
                 /\ words[k] # <<>>
                 /\ \A c \in 1..Len(words[k]) : ~IsSpace(words[k][c])
           /\ Flatten(texts) = Join(SubSeq(words, 1, Len(texts))) \o
                 (IF Len(texts) > 0 THEN <<" ">> ELSE <<>>)
           /\ (\E k \in 1..Len(out) : IsFinal(out[k])) => Len(texts) = Len(words)

\* A stream without tokenizer closed after several words.
C18_Witness ==
    /\ req.stream /\ encoding = "none" /\ pc = "closed"
    /\ NumDeltas(out) >= 3
    /\ NumDeltas(out) = Len(Split(content))

\* C19: with a working tokenizer and X-OUTPUT-LENGTH: 0 the synthesizer
\* returns the empty text, whose token count is 0; a stream then never
\* sleeps for the inter-token delay and never emits a Delta, and when it
\* closes it has emitted exactly the role chunk, the Final chunk and the
\* sentinel.
C19_ZeroTarget ==
    (Accepted(req) /\ req.hLen = Num(0) /\ encoding = "cl100k") =>
        /\ content = <<>>
        /\ _count_tokens(encoding, content) = 0
        /\ pc = "http200" => resp.content = <<>> /\ resp.completion_tokens = 0
        /\ NumDeltas(out) = 0
        /\ \A k \in 1..Len(events) : events[k] \notin {"delta", "sleep_itl"}
        /\ pc = "closed" => out = <<RoleChunk, FinalChunk, DoneFrame>>

\* A stream with target 0 and a working tokenizer that closed.
C19_Witness ==
    /\ Accepted(req) /\ req.hLen = Num(0) /\ encoding = "cl100k"
    /\ req.stream /\ pc = "closed"
    /\ events = <<"sleep_ttft", "synthesize", "role", "units", "final", "done">>

\* The states of the streaming path.
StreamStates ==
    <<"INIT", "AWAIT_FIRST_TOKEN", "ROLE_EMITTED", "STREAMING_TOKENS",
      "FINALIZED", "CLOSED">>

\* The state a stream is in when it does e: the synthesizer is called on
\* waking from the first-token wait, before ROLE_EMITTED is entered.
StateOf(e) ==
    CASE e \in {"sleep_ttft", "synthesize"} -> "AWAIT_FIRST_TOKEN"
      [] e = "role" -> "ROLE_EMITTED"
      [] e \in {"units", "delta", "sleep_itl"} -> "STREAMING_TOKENS"
      [] e = "final" -> "FINALIZED"
      [] OTHER -> "CLOSED"

\* The states passed, from INIT on, each named once per visit.
RECURSIVE Visits(_, _)
Visits(ev, last) ==
    IF ev = <<>> THEN <<>>
    ELSE IF StateOf(Head(ev)) = last THEN Visits(Tail(ev), last)
    ELSE <<StateOf(Head(ev))>> \o Visits(Tail(ev), StateOf(Head(ev)))

StatesPassed == <<"INIT">> \o Visits(events, "INIT")

Count(ev, e) == Cardinality({k \in 1..Len(ev) : ev[k] = e})

\* C14: a stream passes INIT, AWAIT_FIRST_TOKEN, ROLE_EMITTED,
\* STREAMING_TOKENS, FINALIZED, CLOSED in this order, skipping none and
\* revisiting none; the content is synthesized once, after the first-token
\* wait and before the role chunk, and a closed stream has passed all six.
C14_StateOrder ==
    (req.stream /\ status = 200) =>
        /\ Len(StatesPassed) <= Len(StreamStates)
        /\ StatesPassed = SubSeq(StreamStates, 1, Len(StatesPassed))
        /\ Count(events, "synthesize") <= 1
        /\ \A k \in 1..Len(events) :
              /\ events[k] = "synthesize" => k = 2 /\ events[1] = "sleep_ttft"
              /\ events[k] = "role" => k = 3 /\ events[2] = "synthesize"
        /\ Len(out) > 0 => /\ Count(events, "synthesize") = 1
                            /\ pc \notin {"await_first_token", "generate", "extend"}
        /\ pc \in {"generate", "extend", "generated"} => Len(out) = 0
        /\ pc = "closed" => StatesPassed = StreamStates

\* A stream on which the token path failed midway, closed.
C14_Witness ==
    /\ req.stream /\ pc = "closed" /\ failedAfter > 0
    /\ StatesPassed = StreamStates
    /\ Count(events, "units") = 2

\* C15: in a stream the first Delta follows the choice of the units with no
\* sleep after the role chunk; every later Delta has exactly one inter-token
\* sleep before it, begun right after the Delta before; no sleep stands
\* between the last Delta and the Final chunk or between the Final chunk and
\* the sentinel.  A stream that reached Final with n >= 1 Deltas slept n - 1
\* times for the inter-token delay.
C15_Suspensions ==
    (req.stream /\ status = 200) =>
        /\ \A k \in 1..Len(events) :
              /\ events[k] = "sleep_itl" =>
                    /\ k > 1 /\ events[k - 1] = "delta"
                    /\ k < Len(events) =>
                          \/ events[k + 1] = "delta"
                          \/ /\ events[k + 1] = "units" /\ k + 2 <= Len(events)
                             /\ events[k + 2] = "delta"
              /\ events[k] = "delta" =>
                    \/ events[k - 1] = "sleep_itl"
                    \/ /\ events[k - 1] = "units"
                       /\ events[k - 2] \in {"role", "sleep_itl"}
              /\ (events[k] = "delta" /\ Count(SubSeq(events, 1, k), "delta") = 1) =>
                    events[k - 1] = "units" /\ events[k - 2] = "role"
              /\ events[k] = "final" =>
                    \/ events[k - 1] = "delta"
                    \/ events[k - 1] = "units" /\ events[k - 2] = "role"
              /\ events[k] = "done" => events[k - 1] = "final"
        /\ Count(events, "sleep_ttft") = 1
        /\ Count(events, "delta") = NumDeltas(out)
        /\ Count(events, "sleep_itl") <= Count(events, "delta")
        /\ (Count(events, "final") = 1 /\ NumDeltas(out) >= 1) =>
               Count(events, "sleep_itl") = NumDeltas(out) - 1

\* A closed stream of at least three Deltas.
C15_Witness ==
    /\ req.stream /\ pc = "closed"
    /\ NumDeltas(out) >= 3
    /\ Count(events, "sleep_itl") = NumDeltas(out) - 1

\* The value of a header that holds a number or is absent.
HeaderValue(h, default) == IF h.kind = "num" THEN h.val ELSE default

\* C16: a non-streaming request begins one sleep, for the first-token delay,
\* before it calls the synthesizer, and never sleeps for the inter-token
\* delay.  Its answer comes after the first-token delay of its X-TTFT-MS
\* header and one sleep's overshoot at most, whatever X-ITL-MS says; content
\* and usage are those of the content synthesized, in which the inter-token
\* delay has no part.
C16_NonStreamingOneSleep ==
    (~req.stream /\ Accepted(req)) =>
        /\ Count(events, "sleep_itl") = 0
        /\ Len(out) = 0
        /\ pc \in {"wait_ttft"} => events = <<"sleep_ttft">>
        /\ pc \in {"generated", "http200"} =>
               /\ Count(events, "sleep_ttft") = 1 /\ Count(events, "synthesize") = 1
               /\ events[1] = "sleep_ttft" /\ events[Len(events)] = "synthesize"
               /\ Len(events) = 2
               /\ LET T == Max(HeaderValue(req.hTtft, DefaultTtftMs), 0)
                  IN T <= elapsed /\ elapsed <= T + MaxJitter
        /\ pc = "http200" =>
               /\ resp.content = content
               /\ encoding # "broken" =>
                     content \in GeneratedContents(encoding, sample_responses,
                                                  output_length)
               /\ resp.completion_tokens = _count_tokens(encoding, content)
               /\ resp.prompt_tokens = resp.msgLen \div CharsPerToken
               /\ resp.total_tokens = resp.prompt_tokens + resp.completion_tokens

\* A non-streaming answer to a request whose X-ITL-MS exceeds its X-TTFT-MS.
C16_Witness ==
    /\ ~req.stream /\ pc = "http200"
    /\ req.hItl = Num(7) /\ req.hTtft = Num(0)
    /\ events = <<"sleep_ttft", "synthesize">>
    /\ elapsed <= MaxJitter

\* C17: every accepted streaming request that is not cancelled reaches
\* CLOSED, the Final chunk and the sentinel emitted, whether it streams
\* tokens, words, or words after the token path failed.
C17_ReachesClosed ==
    (pc = "await_first_token")
        ~> (cancelled \/ (/\ pc = "closed"
                          /\ Len(out) >= 3
                          /\ IsFinal(out[Len(out) - 1])
                          /\ IsDone(out[Len(out)])))

\* A stream closed after the token path failed midway.
C17_Witness ==
    /\ pc = "closed" /\ ~cancelled /\ mode = "fallback" /\ failedAfter > 0
    /\ IsFinal(out[Len(out) - 1]) /\ IsDone(out[Len(out)])

\* C20: every chunk of a stream carries the id and the created time fixed
\* when the stream started, the model name of the request, and one choice,
\* of index 0; finish_reason is "stop" on the Final chunk and null on every
\* other chunk.
C20_ChunkIdentity ==
    \A k \in 1..Len(out) :
        out[k].sse = "data" =>
            /\ request_id # ""
            /\ out[k].id = request_id /\ out[k].id = out[1].id
            /\ out[k].created = created /\ out[k].created = out[1].created
            /\ created >= 0 /\ created <= wall
            /\ out[k].model = req.model
            /\ out[k].choices = <<0>>
            /\ out[k].finish_reason = IF IsFinal(out[k]) THEN "stop" ELSE "null"

\* A closed stream of a request naming its own model, the clock having
\* ticked after the stream started.
C20_Witness ==
    /\ pc = "closed" /\ NumDeltas(out) >= 2
    /\ req.model = "my-model"
    /\ wall > created
    /\ \A k \in 1..Len(out) - 1 : out[k].created = created

\* The units request t streams: the tokens of its own content, or its words
\* when there is no tokenizer.
OwnUnits(t) ==
    IF self.encoding = "none" THEN Split(t.content) ELSE Encode(t.content)

OwnMode == IF self.encoding = "none" THEN "word" ELSE "token"

\* The frames of a complete stream of request t, from its own values alone.
OwnFrames(t) ==
    LET u == OwnUnits(t)
    IN <<Stamp(RoleChunk, t)>>
       \o [k \in 1..Len(u) |-> Stamp(DeltaChunk(UnitText(OwnMode, u, k)), t)]
       \o <<Stamp(FinalChunk, t), DoneFrame>>

\* C11: with several requests in flight, whatever the interleaving, every
\* stream runs on the delays and the target of its own headers, its frames
\* so far are the first frames of the sequence its own content gives, all of
\* it once the stream is closed, and each spacing between two of its Deltas
\* lies between its own inter-token delay and that delay plus one sleep's
\* overshoot.
C11_StreamsIndependent ==
    \A r \in DOMAIN tasks :
        LET t == tasks[r]
            own == _get_timing_params(t.req)
            frames == OwnFrames(t)
        IN (t.req.stream /\ t.status = 200) =>
              /\ t.ttft = own.ttft /\ t.itl = own.itl /\ t.output_length = own.len
              /\ Len(t.out) > 0 =>
                    /\ Len(t.out) <= Len(frames)
                    /\ t.out = SubSeq(frames, 1, Len(t.out))
              /\ t.pc = "closed" => t.out = frames
              /\ t.minGap # -1 =>
                    /\ Max(own.itl, 0) <= t.minGap
                    /\ t.maxGap <= Max(own.itl, 0) + MaxJitter
              /\ (t.pc = "closed" /\ NumDeltas(t.out) >= 2) => t.minGap # -1

\* Two streams asleep between Deltas at the same time, on different delays,
\* the first of them after an earlier inter-token sleep.
C11_Witness ==
    /\ tasks[1].pc = "sleep_itl" /\ tasks[2].pc = "sleep_itl"
    /\ tasks[1].minGap # -1
    /\ tasks[1].sleepLeft <= 0 /\ tasks[2].sleepLeft > 0

\* What a request holds is its own: the delays and target of its headers, a
\* content of as many tokens as its target, frames with its id.
OwnValues(t) ==
    LET own == _get_timing_params(t.req)
    IN /\ t.pc \notin {"recv", "http400"} =>
             t.ttft = own.ttft /\ t.itl = own.itl /\ t.output_length = own.len
       /\ t.pc \notin {"recv", "http400", "wait_ttft", "await_first_token"} =>
             /\ self.encoding = "cl100k" =>
                   _count_tokens(self.encoding, t.content) = t.output_length
             /\ t.request_id # "" /\ t.created >= 0
       /\ \A k \in 1..Len(t.out) :
             t.out[k].sse = "data" =>
                t.out[k].id = t.request_id /\ t.out[k].created = t.created

\* C13: no step of any request, accepted or rejected, streaming or not,
\* changes the service object (model catalog, phrase pool, tokenizer
\* handle); a step of one request leaves the locals of every other request
\* as they were, and each request's id, created, content and timing
\* parameters are its own.
C13_NoSharedState ==
    /\ [](/\ self = ServiceObject(encoding)
          /\ \A r \in DOMAIN tasks : OwnValues(tasks[r]))
    /\ [][/\ self' = self
          /\ \A r, q \in DOMAIN tasks :
                (r # q /\ tasks'[r].pc # tasks[r].pc) => tasks'[q] = tasks[q]
         ]_vars

\* A non-streaming request answered and a stream closed side by side, with
\* different contents, the service object as constructed.
C13_Witness ==
    /\ tasks[1].pc = "http200" /\ tasks[2].pc = "closed"
    /\ tasks[1].content # tasks[2].content
    /\ tasks[1].output_length # tasks[2].output_length
    /\ self = ServiceObject(encoding)

\* Request r has its content: answered, or streaming it.
HasContent(t) == t.pc \in {"http200", "streaming"}

\* C21: with the phrase choices fixed, two requests with the same
\* X-OUTPUT-LENGTH get the same content and the same completion token count,
\* whatever their messages, model, max_tokens, temperature, stream flag,
\* X-TTFT-MS and X-ITL-MS; with the tokenizer at work the content has the
\* target's tokens also when max_tokens is smaller.
C21_ContentDependsOnTarget ==
    \A r, q \in DOMAIN tasks :
        (HasContent(tasks[r]) /\ HasContent(tasks[q])) =>
            LET t == tasks[r]
                u == tasks[q]
            IN /\ t.content = u.content
               /\ t.picked = u.picked
               /\ ~t.req.stream =>
                     /\ t.completion_tokens = _count_tokens(self.encoding, u.content)
                     /\ ~u.req.stream => t.completion_tokens = u.completion_tokens
               /\ (self.encoding = "cl100k" /\ t.output_length >= 0) =>
                     _count_tokens(self.encoding, t.content) = t.output_length

\* A stream for another model with max_tokens 1 and explicit delays, after a
\* plain request with the same target of five tokens, both through one pass
\* of the extension loop.
C21_Witness ==
    /\ Len(tasks) = 2
    /\ HasContent(tasks[1]) /\ HasContent(tasks[2])
    /\ self.encoding = "cl100k"
    /\ tasks[2].req.stream /\ tasks[2].req.model # tasks[1].req.model
    /\ tasks[2].req.max_tokens = 1 /\ tasks[2].req.temperature = 0
    /\ tasks[2].req.msgLen # tasks[1].req.msgLen
    /\ tasks[2].req.hTtft = Num(0) /\ tasks[2].req.hItl = Num(7)
    /\ tasks[2].ttft # tasks[1].ttft /\ tasks[2].itl # tasks[1].itl
    /\ tasks[2].output_length = 5
    /\ Len(tasks[2].picked) = 2
    /\ tasks[2].content = tasks[1].content /\ tasks[2].content # <<>>

\* The additions the loop can draw.
Additions ==
    {Addition(filler, extension) :
        filler \in filler_phrases, extension \in extension_templates}

\* A pass of the extension loop: a step taken inside the loop that changes
\* the synthesizer's locals or leaves the loop.
LoopPass == pc = "extend" /\ (pc' # pc \/ genVars' # genVars)

\* The two ways a pass can go: a whole addition of at least one token is
\* appended and counted, the tally staying within the target (the loop goes on
\* while the tally is below it); or the addition does not fit, a piece is
\* appended without being counted, and the loop is left.
WholeFragment ==
    /\ \E addition \in Additions :
          /\ current_content' = current_content \o addition
          /\ current_tokens' = current_tokens + _count_tokens(encoding, addition)
    /\ current_tokens' >= current_tokens + 1
    /\ current_tokens' <= output_length
    /\ pc' = IF current_tokens' < output_length THEN "extend" ELSE "generated"

PartialPiece ==
    /\ pc' = "generated"
    /\ current_tokens' = current_tokens
    /\ Len(current_content') > Len(current_content)
    /\ SubSeq(current_content', 1, Len(current_content)) = current_content
    /\ \A addition \in Additions :
          current_content' # current_content \o addition
          \/ current_tokens + _count_tokens(encoding, addition) > output_length

\* C22: the extension loop terminates for every target and every sequence of
\* fragment choices.  Inside the loop the tally is below the target; every
\* pass either appends a whole fragment of at least one token, the tally
\* growing strictly and not beyond the target, or appends the final partial
\* piece and leaves the loop; a tally above the target is found only where
\* the loop was never entered; and a request inside the loop gets out of it.
C22_ExtensionTerminates ==
    /\ [](/\ pc = "extend" => /\ current_tokens < output_length
                              /\ current_tokens >= 0
          /\ current_tokens > output_length => current_content \in sample_responses)
    /\ [][LoopPass => (WholeFragment \/ PartialPiece)]_vars
    /\ (pc = "extend") ~> (pc = "generated")

\* A content made of the base phrase, a whole fragment and a partial piece.
C22_Witness ==
    /\ pc = "generated"
    /\ current_tokens < output_length
    /\ \E base_response \in sample_responses, addition \in Additions :
          LET whole == base_response \o addition
          IN /\ Len(current_content) > Len(whole)
             /\ SubSeq(current_content, 1, Len(whole)) = whole
             /\ current_tokens = _count_tokens(encoding, base_response)
                                 + _count_tokens(encoding, addition)

\* The synthesizer stands inside the extension loop, or left it on a whole
\* fragment that met the target; nothing uncounted was appended.
AfterWholeFragment ==
    \/ pc = "extend"
    \/ /\ current_tokens = output_length
       /\ current_content # <<>> /\ current_content \notin sample_responses

\* The synthesizer left the loop on a cut piece.
AfterPartialPiece ==
    /\ pc # "extend"
    /\ current_tokens < output_length
    /\ current_content # <<>> /\ current_content \notin sample_responses

\* C23 as stated: with the tokenizer as it was constructed, the tally equals
\* the token count of the accumulated content after every whole fragment.
C23_TallyIsCount ==
    (encoding = self.encoding /\ AfterWholeFragment) =>
        current_tokens = _count_tokens(encoding, current_content)

\* C23, amended: with the tokenizer at work the tally equals the token count
\* of the accumulated content after every whole fragment, and the content
\* with the cut piece has the target's tokens; under the character-count
\* fallback the tally is a lower bound of the count of the accumulated
\* content.
C23_TallyIsCountWithTokenizer ==
    /\ (encoding = "cl100k" /\ AfterWholeFragment) =>
          current_tokens = _count_tokens(encoding, current_content)
    /\ (encoding = "cl100k" /\ AfterPartialPiece) =>
          _count_tokens(encoding, current_content) = output_length
    /\ encoding = "none" =>
          current_tokens <= _count_tokens(encoding, current_content)

\* With the tokenizer at work: a base phrase, a whole fragment and a cut
\* piece that make up the target.
C23_Witness ==
    /\ encoding = "cl100k"
    /\ AfterPartialPiece
    /\ current_tokens > 0
    /\ \E base_response \in sample_responses :
          /\ Len(current_content) > Len(base_response)
          /\ current_tokens > _count_tokens(encoding, base_response)
    /\ _count_tokens(encoding, current_content) = output_length

====
